---- MODULE Spec2Model ----
(***************************************************************************)
(* Model of O3D3xxNode (src/src/o3d3xx_node.cpp): the publishing loop Run  *)
(* on the main thread and the service handlers GetVersion, Dump, Config    *)
(* and Rm on the single AsyncSpinner thread, which share the frame grabber *)
(* fg_ under the mutex fg_mutex_.                                          *)
(*                                                                         *)
(* The camera library (o3d3xx::Camera, o3d3xx::FrameGrabber) is not part   *)
(* of the node: every call into it is an environment step that returns     *)
(* normally, throws o3d3xx::error_t, or throws another std::exception.     *)
(***************************************************************************)
EXTENDS Integers, Sequences, FiniteSets, TLC

\* ------------------------------------------------------------------ bounds
MaxGen    == 2   \* service calls are accepted while fewer than MaxGen rebuilds happened
MaxFrames == 2   \* frames the camera delivers in one run
MaxApp    == 2   \* application slots on the camera
MaxOvertaken == 2  \* lock acquisitions of the loop counted against a blocked handler

\* ------------------------------------------------------------ value spaces
Apps      == 1..MaxApp
Indices   == (0 - 1)..MaxApp            \* req.index of the Rm service
ErrCodes  == {0 - 9000, 0 - 9003}       \* codes carried by o3d3xx::error_t
OtherWhat == "transport failure"        \* what() of a non-library exception
BadJson   == "malformed document"       \* what() of the JSON parser's exception
RejectMsg == "Cannot delete active application!"

ErrWhat(c) == IF c = 0 - 9000 THEN "XMLRPC failure" ELSE "XMLRPC timeout"

\* result of one call into the camera library
OkOut       == [kind |-> "ok",    code |-> 0,     what |-> ""]
ErrOut(c)   == [kind |-> "error", code |-> c,     what |-> ErrWhat(c)]
OtherOut(w) == [kind |-> "other", code |-> 0,     what |-> w]
Failures    == {ErrOut(c) : c \in ErrCodes} \cup {OtherOut(OtherWhat)}
Outcomes    == {OkOut} \cup Failures

\* req.json of the Config service: a document the parser rejects, or a
\* partial configuration selecting or creating an application
JsonDocs == {[op |-> "malformed", app |-> 0]}
              \cup {[op |-> "activate", app |-> a] : a \in Apps}
              \cup {[op |-> "create",   app |-> a] : a \in Apps}

VARIABLES
  rosOk,      \* ros::ok()
  mutex,      \* fg_mutex_: "free", "loop" or "srv"
  fgGen,      \* generation of the FrameGrabber held in fg_
  loopPc,     \* position of Run
  waitGen,    \* generation of the FrameGrabber WaitForFrame was called on
  buff,       \* frame in the image buffer: its number and its grabber's generation
  pub,        \* numbers of the frames published, in order
  warned,     \* warnings logged in the current iteration
  srvPc,      \* position of the spinner thread
  srvKind,    \* service being handled
  req,        \* request: index (Rm) and json (Config)
  res,        \* response being built
  log,        \* camera calls and rebuilds of the current request
  genAtCall,  \* fgGen when the current request was accepted
  devAtCall,  \* camera state when the current request was accepted
  lastOut,    \* result of the last camera call of the current request
  failed,     \* a camera call of the current request threw
  rmActive,   \* dev->ActiveApplication() read by Rm
  overtaken,  \* times the loop took fg_mutex_ while the current request waits for it
  session,    \* camera: an edit session is open
  mode,       \* camera: operating mode
  apps,       \* camera: stored applications
  active      \* camera: active application

loopVars == <<loopPc, waitGen, buff, pub, warned>>
srvVars  == <<srvPc, srvKind, req, res, log, genAtCall, devAtCall, lastOut,
              failed, rmActive, overtaken>>
devVars  == <<session, mode, apps, active>>
vars     == <<rosOk, mutex, fgGen, loopVars, srvVars, devVars>>

NoReq   == [index |-> 0, json |-> [op |-> "malformed", app |-> 0]]
NewRes  == [status |-> 0, msg |-> "", config |-> "", version |-> ""]
DevState == [session |-> session, mode |-> mode, apps |-> apps, active |-> active]

Init ==
  /\ rosOk = TRUE
  /\ mutex = "free"
  /\ fgGen = 0
  /\ loopPc = "check"
  /\ waitGen = 0
  /\ buff = [seq |-> 0, gen |-> 0]
  /\ pub = <<>>
  /\ warned = 0
  /\ srvPc = "idle"
  /\ srvKind = "none"
  /\ req = NoReq
  /\ res = NewRes
  /\ log = <<>>
  /\ genAtCall = 0
  /\ lastOut = OkOut
  /\ failed = FALSE
  /\ rmActive = 0
  /\ overtaken = 0
  /\ session = FALSE
  /\ mode = "RUN"
  /\ apps = Apps
  /\ active \in Apps
  /\ devAtCall = DevState

\* ------------------------------------------------------------- Run (loop)

\* variant: while (true)
L_Check_Forever ==
  /\ loopPc = "check"
  /\ loopPc' = "lock"
  /\ warned' = 0
  /\ UNCHANGED <<rosOk, mutex, fgGen, waitGen, buff, pub, srvVars, devVars>>

\* while (ros::ok())
L_Check ==
  /\ loopPc = "check"
  /\ loopPc' = IF rosOk THEN "lock" ELSE "exit"
  /\ warned' = 0
  /\ UNCHANGED <<rosOk, mutex, fgGen, waitGen, buff, pub, srvVars, devVars>>

\* variant: the loop enters WaitForFrame without taking fg_mutex_
LoopMayLock_Unguarded == TRUE

\* std::mutex::lock as called by the loop
LoopMayLock == mutex = "free"

\* fg_lock.lock(): std::mutex hands the lock to whichever thread takes it
\* first, also past a handler already blocked on it
L_Lock ==
  /\ loopPc = "lock"
  /\ LoopMayLock
  /\ mutex' = "loop"
  /\ loopPc' = "call"
  /\ overtaken' = IF srvPc = "lock" /\ overtaken < MaxOvertaken
                    THEN overtaken + 1 ELSE overtaken
  /\ UNCHANGED <<rosOk, fgGen, waitGen, buff, pub, warned, srvPc, srvKind, req,
                 res, log, genAtCall, devAtCall, lastOut, failed, rmActive,
                 devVars>>

\* this->fg_->WaitForFrame(...) is entered on the grabber fg_ holds now
L_WaitBegin ==
  /\ loopPc = "call"
  /\ waitGen' = fgGen
  /\ loopPc' = "waiting"
  /\ UNCHANGED <<rosOk, mutex, fgGen, buff, pub, warned, srvVars, devVars>>

\* WaitForFrame returns true: the buffer holds a new frame of that grabber
L_Frame ==
  /\ loopPc = "waiting"
  /\ buff.seq < MaxFrames
  /\ buff' = [seq |-> buff.seq + 1, gen |-> waitGen]
  /\ loopPc' = "unlockF"
  /\ UNCHANGED <<rosOk, mutex, fgGen, waitGen, pub, warned, srvVars, devVars>>

\* variant: the loop replaces the grabber itself when a wait times out
L_Timeout_Reconnect ==
  /\ loopPc = "waiting"
  /\ fgGen < MaxGen
  /\ fgGen' = fgGen + 1
  /\ loopPc' = "unlockT"
  /\ UNCHANGED <<rosOk, mutex, waitGen, buff, pub, warned, srvVars, devVars>>

\* WaitForFrame returns false
L_Timeout ==
  /\ loopPc = "waiting"
  /\ loopPc' = "unlockT"
  /\ UNCHANGED <<rosOk, mutex, fgGen, waitGen, buff, pub, warned, srvVars, devVars>>

\* variant: the timeout branch does not unlock
L_UnlockTimeout_NoUnlock ==
  /\ loopPc = "unlockT"
  /\ loopPc' = "warn"
  /\ UNCHANGED <<rosOk, mutex, fgGen, waitGen, buff, pub, warned, srvVars, devVars>>

\* fg_lock.unlock() of the timeout branch
L_UnlockTimeout ==
  /\ loopPc = "unlockT"
  /\ mutex' = "free"
  /\ loopPc' = "warn"
  /\ UNCHANGED <<rosOk, fgGen, waitGen, buff, pub, warned, srvVars, devVars>>

\* variant: the timeout branch lacks its continue
L_Warn_FallThrough ==
  /\ loopPc = "warn"
  /\ warned' = warned + 1
  /\ loopPc' = "publish"
  /\ UNCHANGED <<rosOk, mutex, fgGen, waitGen, buff, pub, srvVars, devVars>>

\* ROS_WARN(...); continue
L_Warn ==
  /\ loopPc = "warn"
  /\ warned' = warned + 1
  /\ loopPc' = "check"
  /\ UNCHANGED <<rosOk, mutex, fgGen, waitGen, buff, pub, srvVars, devVars>>

\* variant: the loop publishes before it unlocks
L_UnlockFrame_NoUnlock ==
  /\ loopPc = "unlockF"
  /\ loopPc' = "publish"
  /\ UNCHANGED <<rosOk, mutex, fgGen, waitGen, buff, pub, warned, srvVars, devVars>>

\* fg_lock.unlock() after a frame
L_UnlockFrame ==
  /\ loopPc = "unlockF"
  /\ mutex' = "free"
  /\ loopPc' = "publish"
  /\ UNCHANGED <<rosOk, fgGen, waitGen, buff, pub, warned, srvVars, devVars>>

\* the publish calls on the buffer's images
L_Publish ==
  /\ loopPc = "publish"
  /\ pub' = Append(pub, buff.seq)
  /\ loopPc' = "check"
  /\ UNCHANGED <<rosOk, mutex, fgGen, waitGen, buff, warned, srvVars, devVars>>

\* the process is asked to shut down
Shutdown ==
  /\ rosOk
  /\ rosOk' = FALSE
  /\ UNCHANGED <<mutex, fgGen, loopVars, srvVars, devVars>>

\* ------------------------------------------------- service handlers (spinner)

SrvIdle == srvPc \in {"idle", "done", "thrown"}

\* the spinner thread takes the next request off its queue
Accept(kind, r, rs) ==
  /\ SrvIdle
  /\ rosOk
  /\ fgGen < MaxGen
  /\ srvKind' = kind
  /\ req' = r
  /\ res' = rs
  /\ log' = <<>>
  /\ genAtCall' = fgGen
  /\ devAtCall' = DevState
  /\ lastOut' = OkOut
  /\ failed' = FALSE
  /\ rmActive' = 0
  /\ overtaken' = 0

\* the request's trace: the call, whether fg_mutex_ was held, whether it
\* returned, and the code of the o3d3xx::error_t it threw (0: none)
Logged(call, out) ==
  Append(log, [call |-> call, held |-> mutex = "srv", ok |-> out.kind = "ok",
               err |-> IF out.kind = "error" THEN out.code ELSE 0])

\* variant: the mutex is locked by hand and not released on unwinding
Propagate_NoUnlock ==
  /\ srvPc' = "thrown"
  /\ mutex' = mutex

\* an exception leaves the handler: the lock_guard's destructor unlocks
Propagate ==
  /\ srvPc' = "thrown"
  /\ mutex' = "free"

\* GetVersion: builds the version string, touches neither mutex nor fg_
S_GetVersion ==
  /\ Accept("GetVersion", NoReq, [NewRes EXCEPT !.version = "libo3d3xx: 0.1.0"])
  /\ srvPc' = "done"
  /\ UNCHANGED <<rosOk, mutex, fgGen, loopVars, devVars>>

S_CallDump ==
  /\ Accept("Dump", NoReq, NewRes)
  /\ srvPc' = "lock"
  /\ UNCHANGED <<rosOk, mutex, fgGen, loopVars, devVars>>

S_CallConfig ==
  /\ \E j \in JsonDocs : Accept("Config", [NoReq EXCEPT !.json = j], NewRes)
  /\ srvPc' = "lock"
  /\ UNCHANGED <<rosOk, mutex, fgGen, loopVars, devVars>>

S_CallRm ==
  /\ \E i \in Indices : Accept("Rm", [NoReq EXCEPT !.index = i], NewRes)
  /\ srvPc' = "lock"
  /\ UNCHANGED <<rosOk, mutex, fgGen, loopVars, devVars>>

\* variant: the handlers run without the lock_guard
SrvMayLock_Unguarded == TRUE

\* std::mutex::lock as called by a lock_guard
SrvMayLock == mutex = "free"

\* if (req.index > 0)
RmEntersTry(idx) == idx > 0

\* variant: Rm rebuilds without cancelling the session
RmAfterTry_NoCancel == "reset"

\* the statement after Rm's try/catch
RmAfterTry == "cancel"

\* first statement of the handler's body
Body(kind, idx) ==
  CASE kind = "Dump"   -> "tojson"
    [] kind = "Config" -> "fromjson"
    [] kind = "Rm"     -> IF RmEntersTry(idx) THEN "open" ELSE RmAfterTry

\* res.status = 0; (res.msg = "OK";) of Dump, Config and Rm
Preset(kind, r) ==
  IF kind = "Dump" THEN [r EXCEPT !.status = 0]
                   ELSE [r EXCEPT !.status = 0, !.msg = "OK"]

\* std::lock_guard<std::mutex> lock(this->fg_mutex_) and the response preset
S_Lock ==
  /\ srvPc = "lock"
  /\ SrvMayLock
  /\ mutex' = "srv"
  /\ res' = Preset(srvKind, res)
  /\ srvPc' = Body(srvKind, req.index)
  /\ overtaken' = 0
  /\ UNCHANGED <<rosOk, fgGen, loopVars, srvKind, req, log, genAtCall,
                 devAtCall, lastOut, failed, rmActive, devVars>>

\* catch (const o3d3xx::error_t& ex)
CatchError(r, out) == [r EXCEPT !.status = out.code, !.msg = out.what]

\* catch (const std::exception& std_ex)
CatchStd(r, out) == [r EXCEPT !.status = 0 - 1, !.msg = out.what]

\* variant: the std::exception handler comes first and so also catches
\* o3d3xx::error_t, which derives from it
Caught_StdFirst(r, out) ==
  IF out.kind = "ok" THEN r ELSE CatchStd(r, out)

\* response after the try/catch of Config and Rm
Caught(r, out) ==
  CASE out.kind = "ok"    -> r
    [] out.kind = "error" -> CatchError(r, out)
    [] out.kind = "other" -> CatchStd(r, out)

\* Dump's only handler: catch (const o3d3xx::error_t& ex)
DumpCatches(out) == out.kind = "error"

\* res.config = this->cam_->ToJSON(), with Dump's catch
S_ToJSON ==
  /\ srvPc = "tojson"
  /\ \E out \in Outcomes :
       /\ lastOut' = out
       /\ failed' = (out.kind /= "ok")
       /\ IF out.kind = "ok"
            THEN /\ res' = [res EXCEPT !.config = "cfg"]
                 /\ srvPc' = "reset"
                 /\ mutex' = mutex
            ELSE IF DumpCatches(out)
              THEN /\ res' = [res EXCEPT !.status = out.code]
                   /\ srvPc' = "reset"
                   /\ mutex' = mutex
              ELSE /\ res' = res
                   /\ Propagate
  /\ log' = Logged("tojson", lastOut')
  /\ UNCHANGED <<rosOk, fgGen, loopVars, overtaken, srvKind, req, genAtCall, devAtCall,
                 rmActive, devVars>>

\* results FromJSON can have on the camera for a document
FromJsonOutcomes(j) ==
  CASE j.op = "malformed" -> {OtherOut(BadJson)}
    [] j.op = "activate"  -> IF j.app \in apps THEN Outcomes ELSE Failures
    [] j.op = "create"    -> Outcomes

\* this->cam_->FromJSON(req.json), with Config's two catches
S_FromJSON ==
  /\ srvPc = "fromjson"
  /\ \E out \in FromJsonOutcomes(req.json) :
       /\ lastOut' = out
       /\ failed' = (out.kind /= "ok")
       /\ res' = Caught(res, out)
       /\ IF out.kind = "ok"
            THEN /\ apps' = IF req.json.op = "create"
                              THEN apps \cup {req.json.app} ELSE apps
                 /\ active' = IF req.json.op = "activate"
                                THEN req.json.app ELSE active
            ELSE UNCHANGED <<apps, active>>
  /\ log' = Logged("fromjson", lastOut')
  /\ srvPc' = "reset"
  /\ UNCHANGED <<rosOk, mutex, fgGen, loopVars, overtaken, srvKind, req, genAtCall,
                 devAtCall, rmActive, session, mode>>

\* a camera call inside Rm's try block: on success the handler goes on to
\* `next', an exception is caught and control leaves the try block
RmTry(call, outs, next) ==
  /\ \E out \in outs :
       /\ lastOut' = out
       /\ failed' = (out.kind /= "ok")
       /\ res' = Caught(res, out)
       /\ srvPc' = IF out.kind = "ok" THEN next ELSE RmAfterTry
  /\ log' = Logged(call, lastOut')

\* variant: Rm reads the configuration without switching to EDIT
AfterRequestSession_NoEdit == "read"

\* the statement after this->cam_->RequestSession()
AfterRequestSession == "edit"

\* this->cam_->RequestSession(): the camera grants one session at a time
S_RequestSession ==
  /\ srvPc = "open"
  /\ RmTry("open", IF session THEN Failures ELSE Outcomes, AfterRequestSession)
  /\ session' = (session \/ lastOut'.kind = "ok")
  /\ UNCHANGED <<rosOk, mutex, fgGen, loopVars, overtaken, srvKind, req, genAtCall,
                 devAtCall, rmActive, mode, apps, active>>

\* this->cam_->SetOperatingMode(o3d3xx::Camera::operating_mode::EDIT)
S_SetOperatingMode ==
  /\ srvPc = "edit"
  /\ RmTry("edit", IF session THEN Outcomes ELSE Failures, "read")
  /\ mode' = IF lastOut'.kind = "ok" THEN "EDIT" ELSE mode
  /\ UNCHANGED <<rosOk, mutex, fgGen, loopVars, overtaken, srvKind, req, genAtCall,
                 devAtCall, rmActive, session, apps, active>>

\* o3d3xx::DeviceConfig::Ptr dev = this->cam_->GetDeviceConfig()
S_GetDeviceConfig ==
  /\ srvPc = "read"
  /\ RmTry("read", Outcomes, "compare")
  /\ rmActive' = IF lastOut'.kind = "ok" THEN active ELSE rmActive
  /\ UNCHANGED <<rosOk, mutex, fgGen, loopVars, overtaken, srvKind, req, genAtCall,
                 devAtCall, devVars>>

\* variant: the comparison is inverted
RmShouldDelete_Inverted(activeIdx, idx) == activeIdx = idx

\* if (dev->ActiveApplication() != req.index)
RmShouldDelete(activeIdx, idx) == activeIdx /= idx

\* this->cam_->DeleteApplication(req.index): fails for an index not stored
S_DeleteApplication ==
  /\ srvPc = "compare"
  /\ RmShouldDelete(rmActive, req.index)
  /\ RmTry("delete", IF req.index \in apps /\ mode = "EDIT"
                       THEN Outcomes ELSE Failures, RmAfterTry)
  /\ apps' = IF lastOut'.kind = "ok" THEN apps \ {req.index} ELSE apps
  /\ UNCHANGED <<rosOk, mutex, fgGen, loopVars, overtaken, srvKind, req, genAtCall,
                 devAtCall, rmActive, session, mode, active>>

\* else: res.status = -1; res.msg = "Cannot delete active application!"
S_Reject ==
  /\ srvPc = "compare"
  /\ ~RmShouldDelete(rmActive, req.index)
  /\ res' = [res EXCEPT !.status = 0 - 1, !.msg = RejectMsg]
  /\ srvPc' = RmAfterTry
  /\ UNCHANGED <<rosOk, mutex, fgGen, loopVars, overtaken, srvKind, req, log, genAtCall,
                 devAtCall, lastOut, failed, rmActive, devVars>>

\* this->cam_->CancelSession(), outside the try block: what it throws leaves Rm
S_CancelSession ==
  /\ srvPc = "cancel"
  /\ \E out \in Outcomes :
       /\ lastOut' = out
       /\ failed' = (failed \/ out.kind /= "ok")
       /\ IF out.kind = "ok"
            THEN /\ session' = FALSE
                 /\ mode' = "RUN"
                 /\ srvPc' = "reset"
                 /\ mutex' = mutex
            ELSE /\ UNCHANGED <<session, mode>>
                 /\ Propagate
  /\ log' = Logged("close", lastOut')
  /\ UNCHANGED <<rosOk, fgGen, loopVars, overtaken, srvKind, req, res, genAtCall,
                 devAtCall, rmActive, apps, active>>

\* this->fg_.reset(new o3d3xx::FrameGrabber(this->cam_))
S_Reset ==
  /\ srvPc = "reset"
  /\ fgGen' = fgGen + 1
  /\ log' = Logged("rebuild", OkOut)
  /\ srvPc' = "ret"
  /\ UNCHANGED <<rosOk, mutex, loopVars, overtaken, srvKind, req, res, genAtCall,
                 devAtCall, lastOut, failed, rmActive, devVars>>

\* variant: the mutex is locked by hand and the return path does not unlock
S_Return_NoUnlock ==
  /\ srvPc = "ret"
  /\ srvPc' = "done"
  /\ UNCHANGED <<rosOk, mutex, fgGen, loopVars, overtaken, srvKind, req, res,
                 log, genAtCall, devAtCall, lastOut, failed, rmActive, devVars>>

\* return true: the lock_guard's destructor unlocks
S_Return ==
  /\ srvPc = "ret"
  /\ mutex' = "free"
  /\ srvPc' = "done"
  /\ UNCHANGED <<rosOk, fgGen, loopVars, overtaken, srvKind, req, res, log, genAtCall,
                 devAtCall, lastOut, failed, rmActive, devVars>>

Next ==
  \/ L_Check \/ L_Lock \/ L_WaitBegin \/ L_Frame \/ L_Timeout
  \/ L_UnlockTimeout \/ L_Warn \/ L_UnlockFrame \/ L_Publish
  \/ Shutdown
  \/ S_GetVersion \/ S_CallDump \/ S_CallConfig \/ S_CallRm \/ S_Lock
  \/ S_ToJSON \/ S_FromJSON
  \/ S_RequestSession \/ S_SetOperatingMode \/ S_GetDeviceConfig
  \/ S_DeleteApplication \/ S_Reject \/ S_CancelSession
  \/ S_Reset \/ S_Return

Spec == Init /\ [][Next]_vars

\* the main thread runs: every step of Run but the wait for the mutex
LoopStep ==
  \/ L_Check \/ L_WaitBegin \/ L_Frame \/ L_Timeout
  \/ L_UnlockTimeout \/ L_Warn \/ L_UnlockFrame \/ L_Publish

\* the spinner thread runs a handler it has entered: every camera call returns
SrvStep ==
  \/ S_ToJSON \/ S_FromJSON
  \/ S_RequestSession \/ S_SetOperatingMode \/ S_GetDeviceConfig
  \/ S_DeleteApplication \/ S_Reject \/ S_CancelSession
  \/ S_Reset \/ S_Return

\* both threads are scheduled, and the loop blocked on fg_mutex_ gets it if
\* it is free again and again; requests arrive whenever the clients send them
FairSpec ==
  /\ Spec
  /\ WF_vars(LoopStep)
  /\ WF_vars(SrvStep)
  /\ SF_vars(L_Lock)

\* ------------------------------------------------------------ properties

\* the spinner thread is between a handler's lock_guard and its release
InCS == srvPc \in {"tojson", "fromjson", "open", "edit", "read", "compare",
                   "cancel", "reset", "ret"}

SrvEnded == srvPc \in {"done", "thrown"}

Calls == [k \in 1..Len(log) |-> log[k].call]

Rebuilds == Cardinality({k \in 1..Len(log) : log[k].call = "rebuild"})

IsPrefix(p, q) == Len(p) <= Len(q) /\ \A k \in 1..Len(p) : p[k] = q[k]

\* C1: while the loop is inside WaitForFrame, and up to its unlock, no
\* handler is in its critical section and fg_ still holds the grabber the
\* wait was started on.
C1_WaitNotOverlapped ==
  loopPc \in {"waiting", "unlockF", "unlockT"} => ~InCS /\ fgGen = waitGen

\* a handler blocks on fg_mutex_ during a frame wait on a rebuilt grabber
C1_Witness == loopPc = "waiting" /\ srvPc = "lock" /\ fgGen > 0

\* C2 as stated: no frame is handed to publication while a running handler
\* has replaced the grabber the frame came from.
C2_NoPublishDuringReplacement ==
  ~(loopPc = "publish" /\ srvPc = "ret" /\ buff.gen = genAtCall)

\* C2, amended: no frame is acquired from a grabber a running handler has
\* begun to replace: when WaitForFrame fills the buffer no handler is in its
\* critical section and the frame's grabber is the one fg_ holds, before and
\* after the step.
C2_FrameFromHeldConnection ==
  [][buff' /= buff => ~InCS /\ buff'.gen = fgGen /\ fgGen' = fgGen]_vars

\* a frame was acquired from a rebuilt grabber while a handler waits for the lock
C2_Witness ==
  loopPc = "unlockF" /\ srvPc = "lock" /\ buff.gen = fgGen /\ fgGen > 0

\* C3: when a Dump or Config call has ended, whatever its camera call did,
\* fg_ holds a grabber built by that call: one rebuild, generation up by one.
C3_DumpConfigRebuildOnce ==
  (srvKind \in {"Dump", "Config"} /\ SrvEnded)
    => fgGen = genAtCall + 1 /\ Rebuilds = 1

\* C4: when an Rm call has ended, on any exit path, it has rebuilt the
\* grabber exactly once.
C4_RmRebuildOnce ==
  (srvKind = "Rm" /\ SrvEnded) => fgGen = genAtCall + 1 /\ Rebuilds = 1

\* C5: no failure of a camera call leaves a handler as an exception.
C5_NothingPropagates == srvPc /= "thrown"

\* C6: an Rm call with index <= 0 leaves the camera's session, mode and
\* stored applications as they were, and ends by returning status 0, "OK".
C6_RmNullIndexNoOp ==
  (srvKind = "Rm" /\ req.index <= 0)
    => /\ DevState = devAtCall
       /\ SrvEnded => srvPc = "done" /\ res.status = 0 /\ res.msg = "OK"

\* C7: an Rm call whose index > 0 is the active application never calls
\* DeleteApplication, and once it has read the active index from the camera
\* its response is status -1 with the rejection message, up to and
\* including its return; the active application is always among the stored
\* ones.
C7_ActiveNeverDeleted ==
  /\ active \in apps
  /\ (srvKind = "Rm" /\ req.index > 0 /\ req.index = devAtCall.active)
       => /\ \A k \in 1..Len(log) : log[k].call /= "delete"
          /\ (Len(log) >= 3 /\ log[3].call = "read" /\ log[3].ok /\ srvPc /= "compare")
               => res.status = 0 - 1 /\ res.msg = RejectMsg

\* Rm has returned the rejection for the active application
C7_Witness ==
  /\ srvKind = "Rm" /\ srvPc = "done" /\ ~failed
  /\ req.index > 0 /\ req.index = devAtCall.active
  /\ res.status = 0 - 1 /\ Len(log) = 5

RmOrder == <<"open", "edit", "read", "delete", "close", "rebuild">>

\* the traces Rm may leave: the try block is left at the first failing call
\* or at the rejection, then come the session cancel and the rebuild
RmTraces ==
  { SubSeq(RmOrder, 1, n) \o <<"close", "rebuild">> : n \in 1..4 }

\* C8: an Rm call with index > 0 makes its calls in the order open, EDIT,
\* read, delete, close, rebuild, each at most once and each under the lock;
\* for a stored, non-active index whose session, mode and read calls
\* succeed, the returned call has made exactly that sequence.
C8_RmCallOrder ==
  (srvKind = "Rm" /\ req.index > 0)
    => /\ \E t \in RmTraces : IsPrefix(Calls, t)
       /\ \A k \in 1..Len(log) : log[k].held
       /\ ( /\ srvPc = "done"
            /\ req.index \in devAtCall.apps
            /\ req.index /= devAtCall.active
            /\ Len(log) >= 3 /\ \A k \in 1..3 : log[k].ok )
          => Calls = RmOrder

\* Rm has deleted a stored, non-active application and returned
C8_Witness ==
  /\ srvKind = "Rm" /\ srvPc = "done" /\ ~failed
  /\ Calls = RmOrder
  /\ req.index \in devAtCall.apps /\ req.index \notin apps

\* C9: an Rm call with index > 0 that returns (after success, rejection, or
\* a failure of the session, mode, read or delete call) has cancelled the
\* session: CancelSession returned before the rebuild and the return, and
\* the camera is out of its session and back in RUN.
C9_SessionClosedBeforeReturn ==
  (srvKind = "Rm" /\ req.index > 0 /\ srvPc \in {"ret", "done"})
    => /\ \E k \in 1..Len(log) :
            /\ log[k].call = "close" /\ log[k].ok
            /\ \A m \in 1..Len(log) : log[m].call = "rebuild" => k < m
       /\ ~session
       /\ mode = "RUN"

\* Rm returned a device error raised inside an open session
C9_Witness ==
  /\ srvKind = "Rm" /\ srvPc = "done" /\ req.index > 0
  /\ res.status \in ErrCodes
  /\ Len(log) >= 4 /\ log[1].ok /\ log[2].ok

\* the three shapes of a Config response
ConfigShape(k, r) ==
  CASE k = "ok"    -> r.status = 0 /\ r.msg = "OK"
    [] k = "error" -> r.status \in ErrCodes /\ r.msg = ErrWhat(r.status)
    [] k = "other" -> r.status = 0 - 1 /\ r.msg \in {OtherWhat, BadJson}

\* C10: a Config call always returns; its response is (0, "OK") when
\* FromJSON succeeded, the error's code and message when FromJSON threw
\* o3d3xx::error_t, (-1, what()) for any other exception, as for a
\* malformed document; exactly one of the three.
C10_ConfigOutcome ==
  srvKind = "Config"
    => /\ srvPc /= "thrown"
       /\ srvPc = "done" =>
            /\ ConfigShape(lastOut.kind, res)
            /\ lastOut.kind = "error" => res.status = lastOut.code
            /\ lastOut.kind /= "ok" => res.msg = lastOut.what
            /\ req.json.op = "malformed" => res.status = 0 - 1 /\ res.msg /= ""
            /\ Cardinality({k \in {"ok", "error", "other"} :
                              ConfigShape(k, res)}) = 1

\* Config returned the camera's error code
C10_Witness ==
  srvKind = "Config" /\ srvPc = "done" /\ res.status \in ErrCodes

\* C11: in Dump, Config and Rm a camera call that threw o3d3xx::error_t
\* with code c makes the handler end by returning status c; Dump returns
\* status 0 only when ToJSON succeeded; no camera call is issued twice in
\* one request.
C11_DeviceErrorIsStatus ==
  srvKind \in {"Dump", "Config", "Rm"}
    => /\ \A k \in 1..Len(log) :
            (log[k].err /= 0 /\ SrvEnded)
              => srvPc = "done" /\ res.status = log[k].err
       /\ (srvKind = "Dump" /\ srvPc = "done" /\ res.status = 0)
            => log[1].ok
       /\ \A k, m \in 1..Len(log) : log[k].call = log[m].call => k = m

\* C12: after a timed-out wait the loop unlocks, logs one warning, publishes
\* nothing and goes back to the loop test; it leaves the loop only once
\* ros::ok() is false, however often the wait times out.
C12_TimeoutContinues ==
  /\ [](/\ loopPc = "warn" => mutex /= "loop" /\ warned = 0
        /\ warned <= 1
        /\ loopPc = "exit" => ~rosOk)
  /\ [][/\ loopPc = "unlockT" => loopPc' \in {"unlockT", "warn"}
        /\ loopPc = "warn" => loopPc' \in {"warn", "check"}
        /\ loopPc \in {"unlockT", "warn"} => pub' = pub /\ buff' = buff
        /\ (loopPc = "check" /\ rosOk) => loopPc' \in {"check", "lock"}]_vars

\* an iteration that timed out has ended with its warning, a frame of an
\* earlier iteration still in the buffer
C12_Witness ==
  loopPc = "check" /\ warned = 1 /\ rosOk /\ buff.seq = 1 /\ pub = <<1>>

\* C13: while the loop publishes it does not hold fg_mutex_.
C13_PublishUnlocked == loopPc = "publish" => mutex /= "loop"

\* a handler is inside its critical section while the loop publishes
C13_Witness == loopPc = "publish" /\ InCS /\ mutex = "srv"

\* C14: a context holds fg_mutex_ exactly inside its critical section: the
\* loop from lock() to unlock(), a handler from its lock_guard to its return
\* or to the exception that leaves it.
C14_LockReleasedOnExit ==
  /\ mutex = "loop" <=> loopPc \in {"call", "waiting", "unlockF", "unlockT"}
  /\ mutex = "srv" <=> InCS

\* Rm was left by an exception and the loop has taken the mutex since
C14_Witness == srvKind = "Rm" /\ srvPc = "thrown" /\ mutex = "loop"

\* C18: fg_ changes only in the reset step of a Dump, Config or Rm handler
\* that holds fg_mutex_; a step of the loop or a GetVersion call leaves it
\* as it is.
C18_OnlyHandlersReplace ==
  [][/\ fgGen' /= fgGen
          => /\ srvKind \in {"Dump", "Config", "Rm"}
             /\ srvPc = "reset" /\ srvPc' = "ret"
             /\ mutex = "srv" /\ mutex' = "srv"
             /\ fgGen' = fgGen + 1
             /\ UNCHANGED loopVars
     /\ (loopVars' /= loopVars \/ srvKind' = "GetVersion") => fgGen' = fgGen]_vars

\* Rm has replaced the grabber while the loop waits for the mutex
C18_Witness ==
  /\ srvKind = "Rm" /\ srvPc = "ret" /\ fgGen = genAtCall + 1
  /\ loopPc = "lock" /\ mutex = "srv"

\* C19: the loop leaves only at its test and only once ros::ok() is false:
\* a shutdown that arrives during an iteration lets the lock wait, the
\* frame wait and the publication finish, the test that follows starts no
\* further iteration, and the loop ends without the mutex; a handler that
\* is running goes on to its return or its exception as without shutdown.
C19_ShutdownAtLoopTest ==
  /\ [](loopPc = "exit" => ~rosOk /\ mutex /= "loop")
  /\ [][/\ loopPc' = "exit" => loopPc \in {"check", "exit"}
        /\ (loopPc = "check" /\ ~rosOk) => loopPc' \in {"check", "exit"}
        /\ loopPc = "exit" => loopPc' = "exit"
        /\ (rosOk /\ ~rosOk') => UNCHANGED <<mutex, fgGen, loopVars, srvVars>>
        /\ (~rosOk /\ srvPc /= srvPc')
             => /\ InCS \/ srvPc = "lock"
                /\ srvPc' = "done" => srvPc = "ret"
                /\ srvPc' = "thrown" => srvPc \in {"tojson", "cancel"}]_vars

\* the loop has ended after a shutdown that came while it published, and a
\* handler accepted before the shutdown is still running
C19_Witness ==
  loopPc = "exit" /\ ~rosOk /\ Len(pub) > 0 /\ InCS

\* C20: the frames published are the frames acquired, each once and in
\* order: all of them, except the one just acquired and not yet published;
\* a timed-out iteration adds nothing.
C20_PublishedOnceInOrder ==
  /\ pub = [k \in 1..Len(pub) |-> k]
  /\ Len(pub) = IF loopPc \in {"unlockF", "publish"}
                  THEN buff.seq - 1 ELSE buff.seq

\* a timed-out iteration after two published frames
C20_Witness ==
  loopPc = "check" /\ warned = 1 /\ buff.seq = 2 /\ pub = <<1, 2>>

\* C15: whenever the loop is inside WaitForFrame the camera is in RUN mode
\* and has no session open, whatever requests were handled before.
C15_WaitInRunMode ==
  loopPc = "waiting" => mode = "RUN" /\ ~session

\* C16: a handler blocked on fg_mutex_ sees the loop take the mutex at most
\* once before it gets it.
C16_OvertakenAtMostOnce == overtaken <= 1

====
